---- MODULE Spec2Model ----
(***************************************************************************)
(* Model of bitbucket_linter.py: BitbucketCommenter (pull-request lookup   *)
(* with retries, diff-file extraction, comment posting, approval) and      *)
(* PyLinter.run (analyzer output parsing, comment dedup, approve or        *)
(* unapprove).                                                             *)
(*                                                                         *)
(* The script is Python 3 code: str() of the bytes of the diff and of the  *)
(* analyzer output yields "b'...'" with newlines escaped, which is why the *)
(* source splits on the two characters backslash-n and drops [2:-1].       *)
(* Texts are sequences of characters, so that strip, lower, upper,         *)
(* startswith and endswith are computed and not assumed.                   *)
(***************************************************************************)
EXTENDS Integers, Sequences, FiniteSets, TLC

\* ------------------------------------------------------------------ bounds
MaxOut == 2        \* analyzer output records per run
MaxFiles == 2      \* file sections in the pull request's diff
MaxAttempts == 3   \* queries modelled when retries_till_failure < 0
MaxRuns == 2       \* invocations of the script against the pull request
MaxRetries == 2    \* largest retries_till_failure drawn

\* --------------------------------------------------------- program constants
RETRY_SLEEP_TIME == 3
DIFF_FILE_START_MAGIC == <<"+", "+", "+", " ", "b", "/">>

\* ------------------------------------------------------------------- text
IsSpace(c) == c \in {" ", "\n"}

LowerCh(c) ==
  CASE c = "A" -> "a" [] c = "B" -> "b" [] c = "C" -> "c" [] c = "M" -> "m"
    [] c = "W" -> "w" [] OTHER -> c

UpperCh(c) ==
  CASE c = "a" -> "A" [] c = "b" -> "B" [] c = "c" -> "C" [] c = "m" -> "M"
    [] c = "w" -> "W" [] c = "p" -> "P" [] c = "y" -> "Y" [] OTHER -> c

Lower(s) == [i \in 1..Len(s) |-> LowerCh(s[i])]
Upper(s) == [i \in 1..Len(s) |-> UpperCh(s[i])]

RECURSIVE LStrip(_)
LStrip(s) == IF s # <<>> /\ IsSpace(s[1]) THEN LStrip(Tail(s)) ELSE s

RECURSIVE RStrip(_)
RStrip(s) ==
  IF s # <<>> /\ IsSpace(s[Len(s)]) THEN RStrip(SubSeq(s, 1, Len(s) - 1)) ELSE s

Strip(s) == RStrip(LStrip(s))

StartsWith(s, pre) ==
  /\ Len(s) >= Len(pre)
  /\ SubSeq(s, 1, Len(pre)) = pre

EndsWith(s, suf) ==
  /\ Len(s) >= Len(suf)
  /\ SubSeq(s, Len(s) - Len(suf) + 1, Len(s)) = suf

\* s.replace(old, new) for a one-character old
ReplaceCh(s, old, new) == [i \in 1..Len(s) |-> IF s[i] = old THEN new ELSE s[i]]

\* str() of a small non-negative integer
DigitCh(n) ==
  CASE n = 0 -> "0" [] n = 1 -> "1" [] n = 2 -> "2" [] n = 3 -> "3"
    [] n = 4 -> "4" [] n = 5 -> "5" [] n = 6 -> "6" [] n = 7 -> "7"
    [] n = 8 -> "8" [] OTHER -> "9"

RECURSIVE StrInt(_)
StrInt(n) == IF n < 10 THEN <<DigitCh(n)>> ELSE StrInt(n \div 10) \o <<DigitCh(n % 10)>>

Range(s) == {s[i] : i \in DOMAIN s}

\* ------------------------------------------------- the pull request's diff
\* A diff is a sequence of file sections; the remote renders it as unified
\* diff text.  A section: [name, status, hunks], a hunk <<c, d>> standing for
\* the header "@@ -a,b +c,d @@".
DotPy == <<".", "p", "y">>
F_APY == <<"a", ".", "p", "y">>
F_BPY == <<"B", ".", "p", "y">>
F_RMD == <<"r", ".", "m", "d">>
FileNames == {F_APY, F_BPY, F_RMD}
HunkSet == {<<1, 1>>, <<2, 2>>}

DevNull == <<"/", "d", "e", "v", "/", "n", "u", "l", "l">>

HunkHeader(h) ==
  <<"@", "@", " ", "-">> \o StrInt(h[1]) \o <<",">> \o StrInt(h[2])
    \o <<" ", "+">> \o StrInt(h[1]) \o <<",">> \o StrInt(h[2]) \o <<" ", "@", "@">>

RECURSIVE HunkText(_)
HunkText(hs) ==
  IF hs = <<>> THEN <<>>
  ELSE <<HunkHeader(Head(hs)), <<"+", "x">>>> \o HunkText(Tail(hs))

SectionText(sec) ==
  <<  <<"d", "i", "f", "f", " ">> \o sec.name,
      <<"-", "-", "-", " ", "a", "/">> \o sec.name,
      IF sec.status = "removed"
        THEN <<"+", "+", "+", " ">> \o DevNull
        ELSE <<"+", "+", "+", " ", "b", "/">> \o sec.name >>
    \o HunkText(sec.hunks)

RECURSIVE DiffText(_)
DiffText(secs) ==
  IF secs = <<>> THEN <<>> ELSE SectionText(Head(secs)) \o DiffText(Tail(secs))

\* str(bytes) split at escaped newlines: the text's lines, each ended by a newline, come
\* back with b' before the first and a last piece holding the closing quote.
StrBytesLines(lines) ==
  IF lines = <<>> THEN << <<"b", "'", "'">> >>
  ELSE << <<"b", "'">> \o Head(lines) >> \o Tail(lines) \o << <<"'">> >>

\* faulty variant: the old file's marker is read instead of the new file's
MarkerLines_old(diff_lines) ==
  SelectSeq(diff_lines, LAMBDA dl : StartsWith(dl, <<"-", "-", "-", " ", "a", "/">>))

\* BitbucketCommenter.get_diff_files
MarkerLines(diff_lines) ==
  SelectSeq(diff_lines, LAMBDA dl : StartsWith(dl, DIFF_FILE_START_MAGIC))

NameOfMarker(dl) == SubSeq(dl, Len(DIFF_FILE_START_MAGIC) + 1, Len(dl))

get_diff_files(secs) ==
  LET diff_lines == StrBytesLines(DiffText(secs))
      file_lines == MarkerLines(diff_lines)
  IN  [i \in 1..Len(file_lines) |-> NameOfMarker(file_lines[i])]

\* PyLinter._get_py_diff_files
IsPyFile(df) == EndsWith(Strip(df), DotPy)

get_py_diff_files(secs) == SelectSeq(get_diff_files(secs), IsPyFile)

\* `not py_diff_files` on the filter object that _get_py_diff_files returns:
\* a filter object is truthy whatever it yields.
NotFilterObject(files) == FALSE


\* ------------------------------------------------------ the remote's state
\* A pull request as the remote returns it: pr.data has "source" or not,
\* pr.source["branch"]["name"], pr.state.
OPEN == <<"O", "P", "E", "N">>
MERGED == <<"M", "E", "R", "G", "E", "D">>
BranchName == "feature"

PR_Match == [has_source |-> TRUE, branch |-> "feature", state |-> OPEN]
PR_Other == [has_source |-> TRUE, branch |-> "other", state |-> OPEN]
PR_NoSource == [has_source |-> FALSE, branch |-> "feature", state |-> OPEN]
PR_Merged == [has_source |-> TRUE, branch |-> "feature", state |-> MERGED]
PRKinds == {PR_Match, PR_Other, PR_NoSource, PR_Merged}
PullConfigs == {<<a, b>> : a \in PRKinds, b \in PRKinds}

\* PullRequest.find_pullrequests_for_repository_by_state(..., state=OPEN):
\* the ids of the pull requests the remote lists for that state.
find_pullrequests_by_state(prs, st) ==
  SelectSeq([i \in 1..Len(prs) |-> i], LAMBDA i : prs[i].state = st)

\* faulty variant: the branch name is not compared
IsBranchPullRequest_anybranch(pr) ==
  /\ pr.has_source
  /\ Upper(pr.state) = Upper(OPEN)

\* the filter of _fetch_pull_request
IsBranchPullRequest(pr) ==
  /\ pr.has_source
  /\ pr.branch = BranchName
  /\ Upper(pr.state) = Upper(OPEN)

branch_pull_requests(prs) ==
  SelectSeq(find_pullrequests_by_state(prs, OPEN),
            LAMBDA i : IsBranchPullRequest(prs[i]))

\* ------------------------------------------------------ analyzer output
\* One piece of pylint_stdout[2:-1] split at the record separator: whether json.loads
\* accepts it once wrapped in braces, and the fields of the object it yields.
AllFields == {"path", "line", "msg", "msg_id", "category", "symbol"}
MSG_ID == <<"C", "1">>
SYMBOL == <<"s">>
CATEGORY == <<"c">>

Finding(path, line, msg) ==
  [json |-> TRUE, has |-> AllFields, path |-> path, line |-> line, msg |-> msg,
   msg_id |-> MSG_ID, category |-> CATEGORY, symbol |-> SYMBOL]

\* text that is not JSON (pylint's module header, its score line)
Garbage == [Finding(<<>>, 0, <<>>) EXCEPT !.json = FALSE, !.has = {}]
\* empty output: the piece "" is wrapped to "{}", an object with no field
EmptyObject == [Finding(<<>>, 0, <<>>) EXCEPT !.has = {}]
\* an object lacking one field
Lacking(f, field) == [f EXCEPT !.has = AllFields \ {field}]

MSG_LOWER == <<"m">>
MSG_UPPER == <<"M">>
\* "ESC-N" is the two characters backslash, n (an escaped newline)
MSG_ESC == <<"w", "ESC-N">>

\* the rendered comment body of run; "FENCE" is the three-backquote fence
Content(data) ==
  Upper(data.category) \o <<" ", "(">> \o data.msg_id \o <<" ">> \o data.symbol
    \o <<")", ":", "\n", "\n", "FENCE", "\n">>
    \o ReplaceCh(data.msg, "ESC-N", "\n") \o <<"\n", "FENCE", "\n">>

\* the dedup key: (str(line), str(path), str(content)), stripped, lowered
Key(line, path, content) ==
  << Lower(Strip(StrInt(line))), Lower(Strip(path)), Lower(Strip(content)) >>

\* faulty variant: the finding's key is not stripped and lowered
comment_key_unnormalised(data) == <<StrInt(data.line), data.path, Content(data)>>

comment_key(data) == Key(data.line, data.path, Content(data))

\* A comment of the pull request: is_comment is type(c) == Comment, inline
\* is "inline" in c.data; to, path, raw are inline["to"], inline["path"],
\* content["raw"].
InlineComment(line, path, raw) ==
  [is_comment |-> TRUE, inline |-> TRUE, to |-> line, path |-> path, raw |-> raw]

GeneralComment(raw) ==
  [is_comment |-> TRUE, inline |-> FALSE, to |-> 0, path |-> <<>>, raw |-> raw]

\* faulty variant: the existing comments are keyed (path, line, content)
generate_comments_map_swapped(cs) ==
  { <<Lower(Strip(c.path)), Lower(Strip(StrInt(c.to))), Lower(Strip(c.raw))>> :
      c \in {x \in cs : x.is_comment /\ x.inline} }

\* PyLinter._generate_comments_map
generate_comments_map(cs) ==
  { Key(c.to, c.path, c.raw) : c \in {x \in cs : x.is_comment /\ x.inline} }

\* ------------------------------------------------------------------ state
VARIABLES
  pulls,                 \* the remote's pull requests
  diff,                  \* the diff of the branch's pull request (sections)
  pylint_out,            \* what the analyzer prints for that diff
  comments,              \* the comments of the pull request on the remote
  approval,              \* the remote's approval state: "none", "approved", "unapproved"
  retries_till_failure,  \* BitbucketCommenter.retries_till_failure
  pc,                    \* where the process is
  attempts,              \* _fetch_pull_request's attempts
  pull_request,          \* self.pull_request: an index of pulls, 0 while unset
  py_diff_files,         \* run's py_diff_files
  pylint_output_lines,   \* run's pylint_output_lines
  comments_map,          \* run's comments_map
  had_comments,          \* run's had_comments
  idx,                   \* position of run's for loop in pylint_output_lines
  error,                 \* the exception that ended the process, "" if none
  queries,               \* history: npull_requests of each query of this invocation
  slept,                 \* history: seconds slept by this invocation
  analyzer_ran,          \* history: the analyzer was invoked by this invocation
  posted,                \* history: post_comment calls of this invocation
  approvals,             \* history: approve/unapprove calls of this invocation
  selected,              \* history: <<the remote's pull requests>> as they were at the selecting query
  fetched,               \* history: what get_comments returned to this invocation
  prev_posted,           \* history: post_comment calls of the previous invocation
  run_no                 \* the invocation's number

vars == <<pulls, diff, pylint_out, comments, approval, retries_till_failure, pc,
          attempts, pull_request, py_diff_files, pylint_output_lines,
          comments_map, had_comments, idx, error, queries, slept, analyzer_ran,
          posted, approvals, selected, fetched, prev_posted, run_no>>

remote == <<pulls, diff, pylint_out>>
runvars == <<py_diff_files, pylint_output_lines, comments_map, had_comments, idx>>
fetchvars == <<attempts, pull_request, queries, slept, selected>>
hist == <<analyzer_ran, posted, approvals, fetched>>

\* ------------------------------------------------------------ the inputs
RECURSIVE SeqsUpTo(_, _)
SeqsUpTo(S, n) ==
  IF n = 0 THEN {<<>>}
  ELSE LET shorter == SeqsUpTo(S, n - 1)
       IN  shorter \cup {Append(s, x) : s \in {t \in shorter : Len(t) = n - 1}, x \in S}

Section(name, status, hunks) == [name |-> name, status |-> status, hunks |-> hunks]

HunkSeqs ==
  {s \in SeqsUpTo(HunkSet, Cardinality(HunkSet)) :
     s # <<>> /\ \A i \in 1..(Len(s) - 1) : s[i][1] < s[i + 1][1]}

SectionsOf(name) ==
  {Section(name, "modified", hs) : hs \in HunkSeqs}
    \cup {Section(name, "removed", << <<0, 0>> >>)}

AllSections == UNION {SectionsOf(n) : n \in FileNames}

DistinctNames(secs) ==
  \A i, j \in DOMAIN secs : i # j => secs[i].name # secs[j].name

Diffs == {d \in SeqsUpTo(AllSections, MaxFiles) : DistinctNames(d)}

\* The analyzer reports on the files it is given.
PiecesFor(files) ==
  {Garbage, EmptyObject}
    \cup {Finding(p, l, m) : p \in Range(files), l \in {1, 2}, m \in {MSG_LOWER, MSG_UPPER}}
    \cup {Lacking(Finding(p, 1, MSG_LOWER), "line") : p \in Range(files)}

OutputsFor(d) == SeqsUpTo(PiecesFor(get_py_diff_files(d)), MaxOut) \ {<<>>}

TypeOK ==
  /\ pc \in {"fetch", "exited", "ready", "loop", "done", "crashed"}
  /\ attempts \in Nat
  /\ pull_request \in 0..2
  /\ had_comments \in BOOLEAN
  /\ approval \in {"none", "approved", "unapproved"}


\* comments the pull request may already carry
C_A1 == InlineComment(1, F_APY, Content(Finding(F_APY, 1, MSG_LOWER)))
C_GEN == GeneralComment(Content(Finding(F_APY, 1, MSG_LOWER)))
CommentSets == SUBSET {C_A1, C_GEN}

\* ------------------------------------------------------------------- Init
\* main builds BitbucketCommenter, whose __init__ sets the fields and calls
\* _fetch_pull_request: the process starts at the head of its while loop.
ProcessStart ==
  /\ pc = "fetch"
  /\ attempts = 0
  /\ pull_request = 0
  /\ py_diff_files = <<>>
  /\ pylint_output_lines = <<>>
  /\ comments_map = {}
  /\ had_comments = FALSE
  /\ idx = 0
  /\ error = ""
  /\ queries = <<>>
  /\ slept = 0
  /\ analyzer_ran = FALSE
  /\ posted = <<>>
  /\ approvals = <<>>
  /\ selected = <<>>
  /\ fetched = {}

InitWith(PullSet, RetrySet, DiffSet, Comments) ==
  /\ pulls \in PullSet
  /\ retries_till_failure \in RetrySet
  /\ diff \in DiffSet
  /\ comments \in Comments
  /\ approval = "none"
  /\ prev_posted = <<>>
  /\ run_no = 1
  /\ ProcessStart

\* ------------------------------------------------- _fetch_pull_request
\* faulty variant: one query too many
LoopCondition_inclusive ==
  retries_till_failure < 0 \/ attempts <= retries_till_failure

LoopCondition == retries_till_failure < 0 \/ attempts < retries_till_failure

\* one iteration of the while loop: query, filter, select or sleep
FetchQuery ==
  /\ pc = "fetch"
  /\ LoopCondition
  /\ Len(queries) < MaxAttempts
  /\ LET found == branch_pull_requests(pulls)
         npull_requests == Len(found)
     IN  /\ queries' = Append(queries, npull_requests)
         /\ IF npull_requests = 1
              THEN /\ pull_request' = found[1]
                   /\ selected' = <<pulls>>
                   /\ pc' = "ready"
                   /\ UNCHANGED <<attempts, slept>>
              ELSE /\ slept' = slept + RETRY_SLEEP_TIME
                   /\ attempts' = attempts + 1
                   /\ UNCHANGED <<pull_request, selected, pc>>
  /\ UNCHANGED <<remote, comments, approval, retries_till_failure, runvars,
                 error, hist, prev_posted, run_no>>

\* the loop ends without a pull request: sys.exit(0)
FetchExit ==
  /\ pc = "fetch"
  /\ ~LoopCondition
  /\ pc' = "exited"
  /\ UNCHANGED <<remote, comments, approval, retries_till_failure, runvars,
                 fetchvars, error, hist, prev_posted, run_no>>

\* pull requests are opened, merged and retargeted while the process polls
RemoteChange ==
  /\ pc = "fetch"
  /\ pulls' \in PullConfigs \ {pulls}
  /\ UNCHANGED <<diff, pylint_out, comments, approval, retries_till_failure, pc,
                 runvars, fetchvars, error, hist, prev_posted, run_no>>

\* ------------------------------------------------------------ PyLinter.run
\* run up to its for loop: the diff files, the early return, the analyzer,
\* the comments map
RunStart ==
  /\ pc = "ready"
  /\ LET files == get_py_diff_files(diff)
     IN  /\ py_diff_files' = files
         /\ IF NotFilterObject(files)
              THEN /\ pc' = "done"
                   /\ UNCHANGED <<pylint_output_lines, comments_map, idx,
                                  analyzer_ran, fetched>>
              ELSE /\ analyzer_ran' = TRUE
                   /\ pylint_output_lines' = pylint_out
                   /\ fetched' = comments
                   /\ comments_map' = generate_comments_map(comments)
                   /\ idx' = 1
                   /\ pc' = "loop"
  /\ had_comments' = FALSE
  /\ UNCHANGED <<remote, comments, approval, retries_till_failure, fetchvars,
                 error, posted, approvals, prev_posted, run_no>>

InLoop == pc = "loop" /\ idx <= Len(pylint_output_lines)
Line == pylint_output_lines[idx]

\* json.loads raises: except, continue
SkipUnparsable ==
  /\ InLoop
  /\ ~Line.json
  /\ idx' = idx + 1
  /\ UNCHANGED <<remote, comments, approval, retries_till_failure, pc,
                 py_diff_files, pylint_output_lines, comments_map, had_comments,
                 fetchvars, error, hist, prev_posted, run_no>>

ContentFields == {"category", "msg_id", "symbol", "msg"}

\* data[...] of a field the object lacks: KeyError, outside the try
KeyErrorAbort ==
  /\ InLoop
  /\ Line.json
  /\ ~(AllFields \subseteq Line.has)
  /\ had_comments' = (had_comments \/ ContentFields \subseteq Line.has)
  /\ pc' = "crashed"
  /\ error' = "KeyError"
  /\ UNCHANGED <<remote, comments, approval, retries_till_failure,
                 py_diff_files, pylint_output_lines, comments_map, idx,
                 fetchvars, hist, prev_posted, run_no>>

\* faulty variant: had_comments is set only once a finding passed the dedup check
SkipExisting_unflagged ==
  /\ InLoop
  /\ Line.json
  /\ AllFields \subseteq Line.has
  /\ comment_key(Line) \in comments_map
  /\ idx' = idx + 1
  /\ UNCHANGED <<remote, comments, approval, retries_till_failure, pc,
                 py_diff_files, pylint_output_lines, comments_map, had_comments,
                 fetchvars, error, hist, prev_posted, run_no>>

\* comment_key in comments_map: continue
SkipExisting ==
  /\ InLoop
  /\ Line.json
  /\ AllFields \subseteq Line.has
  /\ comment_key(Line) \in comments_map
  /\ had_comments' = TRUE
  /\ idx' = idx + 1
  /\ UNCHANGED <<remote, comments, approval, retries_till_failure, pc,
                 py_diff_files, pylint_output_lines, comments_map,
                 fetchvars, error, hist, prev_posted, run_no>>

\* what client.session.post can do: the remote stores the comment, the
\* remote answers with an error status (post returns), or the call raises
PostResults == {"stored", "rejected", "raised"}

Call(data, result) ==
  [content |-> Content(data), filename |-> data.path, line_number |-> data.line,
   pr |-> pull_request, result |-> result]

\* commenter.post_comment(content, data["path"], data["line"])
PostComment ==
  /\ InLoop
  /\ Line.json
  /\ AllFields \subseteq Line.has
  /\ comment_key(Line) \notin comments_map
  /\ had_comments' = TRUE
  /\ \E result \in PostResults :
       /\ posted' = Append(posted, Call(Line, result))
       /\ comments' = IF result = "stored"
                        THEN comments \cup {InlineComment(Line.line, Line.path, Content(Line))}
                        ELSE comments
       /\ IF result = "raised"
            THEN pc' = "crashed" /\ error' = "PostError" /\ idx' = idx
            ELSE pc' = pc /\ error' = error /\ idx' = idx + 1
  /\ UNCHANGED <<remote, approval, retries_till_failure, py_diff_files,
                 pylint_output_lines, comments_map, fetchvars, analyzer_ran,
                 approvals, fetched, prev_posted, run_no>>

\* after the loop: unapprove if had_comments, approve otherwise
Finish ==
  /\ pc = "loop"
  /\ idx > Len(pylint_output_lines)
  /\ IF had_comments
       THEN approvals' = Append(approvals, "unapprove") /\ approval' = "unapproved"
       ELSE approvals' = Append(approvals, "approve") /\ approval' = "approved"
  /\ pc' = "done"
  /\ UNCHANGED <<remote, comments, retries_till_failure, runvars, fetchvars,
                 error, analyzer_ran, posted, fetched, prev_posted, run_no>>

\* the script is run again on the same pull request
Reinvoke ==
  /\ pc \in {"done", "crashed", "exited"}
  /\ run_no < MaxRuns
  /\ run_no' = run_no + 1
  /\ prev_posted' = posted
  /\ pc' = "fetch"
  /\ attempts' = 0
  /\ pull_request' = 0
  /\ py_diff_files' = <<>>
  /\ pylint_output_lines' = <<>>
  /\ comments_map' = {}
  /\ had_comments' = FALSE
  /\ idx' = 0
  /\ error' = ""
  /\ queries' = <<>>
  /\ slept' = 0
  /\ analyzer_ran' = FALSE
  /\ posted' = <<>>
  /\ approvals' = <<>>
  /\ selected' = <<>>
  /\ fetched' = {}
  /\ UNCHANGED <<remote, comments, approval, retries_till_failure>>

Next ==
  \/ FetchQuery
  \/ FetchExit
  \/ RunStart
  \/ SkipUnparsable
  \/ KeyErrorAbort
  \/ SkipExisting
  \/ PostComment
  \/ Finish
  \/ Reinvoke

NextPolling == Next \/ RemoteChange

\* ---------------------------------------------------------- specifications
A_PY_1 == Section(F_APY, "modified", << <<1, 1>> >>)
LintDiffs ==
  { <<A_PY_1>>,
    <<Section(F_RMD, "modified", << <<1, 1>> >>)>>,
    <<Section(F_APY, "removed", << <<0, 0>> >>)>> }

\* the linter's runs on a branch with one open pull request
Init ==
  /\ InitWith({<<PR_Other, PR_Match>>}, {-1, 0}, LintDiffs, CommentSets)
  /\ pylint_out \in OutputsFor(diff)
Spec == Init /\ [][Next]_vars


\* a developer's branch while its pull request is opened, merged, retargeted
PollOutputs(d) ==
  { <<Garbage, Finding(F_APY, 1, MSG_LOWER)>>,
    <<Finding(F_APY, 1, MSG_ESC), EmptyObject>> }

InitPolling ==
  /\ InitWith(PullConfigs, (-1)..MaxRetries, {<<A_PY_1>>}, {{}, {C_A1}})
  /\ pylint_out \in PollOutputs(diff)
SpecPolling == InitPolling /\ [][NextPolling]_vars

\* The process is one sequential thread: a loop iteration that can be taken
\* is taken (the query and the sleep return), and so is the exit.
SpecPollingFair == SpecPolling /\ WF_vars(FetchQuery) /\ WF_vars(FetchExit)

\* every diff of up to MaxFiles files
DiffOutputs(d) ==
  IF get_py_diff_files(d) = <<>>
    THEN { <<Garbage>>, <<EmptyObject>> }
    ELSE { <<Garbage, Finding(get_py_diff_files(d)[1], 1, MSG_LOWER)>>,
           <<EmptyObject>> }

InitDiff ==
  /\ InitWith({<<PR_Other, PR_Match>>}, {-1, 0}, Diffs, {{}, {C_A1}})
  /\ pylint_out \in DiffOutputs(diff)
SpecDiff == InitDiff /\ [][Next]_vars


\* ================================================================ claims
AfterExtraction == pc \in {"loop", "done", "crashed"}

PostedComment(call) == InlineComment(call.line_number, call.filename, call.content)

ExistingInline(cs, call) ==
  \E c \in cs : /\ c.is_comment /\ c.inline
                /\ c.to = call.line_number
                /\ c.path = call.filename
                /\ c.raw = call.content

\* The changed lines of `name`: the union of the ranges [c, c+d) of the hunk
\* headers of its sections in the diff.
HunkLines(secs, name) ==
  UNION { UNION { h[1]..(h[1] + h[2] - 1) : h \in Range(secs[i].hunks) }
          : i \in {j \in DOMAIN secs : secs[j].name = name /\ secs[j].status # "removed"} }

C2_RerunPostsNothing ==
  ( /\ run_no >= 2
    /\ AfterExtraction
    /\ \A i \in DOMAIN prev_posted :
         /\ prev_posted[i].result = "stored"
         /\ PostedComment(prev_posted[i]) \in fetched )
  => posted = <<>>

\* a second run finished after a first run that posted comments
C2_Witness ==
  /\ run_no = 2
  /\ pc = "done"
  /\ prev_posted # <<>>
  /\ \A i \in DOMAIN prev_posted :
       prev_posted[i].result = "stored" /\ PostedComment(prev_posted[i]) \in fetched
  /\ posted = <<>>

\* ---- C3 ---------------------------------------------------------------
\* C3: post_comment is called at most once for a dedup key (path, line,
\* rendered body): no two comments stored by one run share path, line and body.
C3_NoKeyPostedTwice ==
  \A i, j \in DOMAIN posted :
    ( /\ i < j
      /\ posted[i].result = "stored"
      /\ posted[j].result = "stored" )
    => <<posted[i].filename, posted[i].line_number, posted[i].content>>
         # <<posted[j].filename, posted[j].line_number, posted[j].content>>

\* ---- C4 ---------------------------------------------------------------
\* C4 as stated: a run that reaches its final step approves if it posted no
\* comment and unapproves if it posted one or more.
C4_ApproveIffNothingPosted ==
  pc = "done" =>
    approvals = << IF posted = <<>> THEN "approve" ELSE "unapprove" >>

\* C4 amended: a run that reaches its final step approves if no analyzer
\* record parsed into a finding and unapproves if one or more did, whether the
\* finding was posted or skipped as already commented.
C4_ApproveIffNoFindingParsed ==
  pc = "done" =>
    /\ approvals =
         << IF \E i \in DOMAIN pylint_out : pylint_out[i].json
              THEN "unapprove" ELSE "approve" >>
    /\ approval = (IF approvals[1] = "approve" THEN "approved" ELSE "unapproved")

\* every finding was skipped as already commented and the run unapproved
C4_Witness ==
  /\ pc = "done"
  /\ posted = <<>>
  /\ \E i \in DOMAIN pylint_out : pylint_out[i].json
  /\ approvals = <<"unapprove">>

\* ---- C5 ---------------------------------------------------------------
\* C5: a run in which no changed file passes the .py filter is a no-op: it
\* ends without approve or unapprove and without a comment.
C5_NoOpWithoutPyFiles ==
  (pc = "done" /\ py_diff_files = <<>>) =>
    (approvals = <<>> /\ posted = <<>> /\ approval = "none")

\* ---- C6 ---------------------------------------------------------------
\* C6: a record that is not JSON or lacks a field is skipped; no run is
\* aborted by such a record.
C6_BadRecordOnlySkipped ==
  pc = "crashed" => error # "KeyError"

\* ---- C7 ---------------------------------------------------------------
\* C7: a post_comment call that fails does not end the run.
C7_PostFailureDoesNotAbort ==
  \A i \in DOMAIN posted :
    posted[i].result \in {"rejected", "raised"} =>
      ~(pc = "crashed" /\ error = "PostError")

\* ---- C8 ---------------------------------------------------------------
IsOpenBranchPR(pr) ==
  pr.has_source /\ pr.branch = "feature" /\ pr.state = <<"O", "P", "E", "N">>

\* C8: the analyzer runs, comments are posted and approval changes only for
\* the pull request that was, at the selecting query, the one open pull
\* request of the branch; a process that exits without one has done none of it.
C8_OnlyOnSelectedPullRequest ==
  /\ (analyzer_ran \/ posted # <<>> \/ approvals # <<>>) =>
       /\ pull_request # 0
       /\ selected # <<>>
       /\ {i \in DOMAIN selected[1] : IsOpenBranchPR(selected[1][i])} = {pull_request}
       /\ \A i \in DOMAIN posted : posted[i].pr = pull_request
  /\ pc = "exited" =>
       /\ pull_request = 0
       /\ ~analyzer_ran
       /\ posted = <<>>
       /\ approvals = <<>>
       /\ \A i \in DOMAIN queries : queries[i] # 1

\* a pull request selected after a failed query got a comment and a verdict
C8_Witness ==
  /\ Len(queries) >= 2
  /\ posted # <<>>
  /\ approvals # <<>>

RECURSIVE ChangedPyNames(_)
ChangedPyNames(secs) ==
  IF secs = <<>> THEN <<>>
  ELSE LET sec == Head(secs)
           n == Len(sec.name)
       IN  (IF /\ sec.status # "removed"
               /\ n >= 3
               /\ <<sec.name[n - 2], sec.name[n - 1], sec.name[n]>> = <<".", "p", "y">>
              THEN <<sec.name>> ELSE <<>>)
             \o ChangedPyNames(Tail(secs))

C10_RetryInvariant ==
  /\ retries_till_failure >= 0 =>
       (Len(queries) <= retries_till_failure /\ attempts <= retries_till_failure)
  /\ retries_till_failure < 0 => pc # "exited"
  /\ pc = "exited" =>
       /\ Len(queries) = retries_till_failure
       /\ \A i \in DOMAIN queries : queries[i] # 1
       /\ slept = RETRY_SLEEP_TIME * retries_till_failure
  /\ pc = "fetch" =>
       (pull_request = 0 /\ \A i \in DOMAIN queries : queries[i] # 1)
  /\ pc \notin {"fetch", "exited"} =>
       /\ pull_request # 0
       /\ queries # <<>>
       /\ \A i \in DOMAIN queries : (queries[i] = 1) <=> (i = Len(queries))
       /\ slept = RETRY_SLEEP_TIME * (Len(queries) - 1)

====
